---- MODULE Spec2Model ----
(***************************************************************************)
(* A model of kerbal.py: planets and atmospheres, rocket components,       *)
(* stages with their memoized accessors, and the fixed-step Simulation.    *)
(*                                                                         *)
(* Python floats are modelled as normalised decimal floating-point numbers *)
(* [m, e] of value m * 10^e with an 8-digit mantissa (10^7 <= |m| < 10^8,  *)
(* or m = 0 and e = 0), rounded half away from zero.  Every arithmetic     *)
(* expression of the source is translated operation by operation, in the   *)
(* source's order of evaluation.                                           *)
(***************************************************************************)
EXTENDS Integers, Sequences, FiniteSets, TLC

-----------------------------------------------------------------------------
(* Floating point                                                          *)

T4 == 10^4
MLO == 10^7
MHI == 10^8

Abs(n) == IF n < 0 THEN -n ELSE n
Sgn(n) == IF n < 0 THEN -1 ELSE IF n > 0 THEN 1 ELSE 0

Zero == [m |-> 0, e |-> 0]

\* n / 10^k rounded half away from zero, n >= 0
RoundDiv(n, k) == (n + (10^k) \div 2) \div (10^k)

\* number of decimal digits of n, 0 < n < 2^31
NDigits(n) ==
  IF n < 10^5
  THEN (IF n < 10^2 THEN (IF n < 10 THEN 1 ELSE 2)
        ELSE IF n < 10^3 THEN 3 ELSE IF n < 10^4 THEN 4 ELSE 5)
  ELSE (IF n < 10^7 THEN (IF n < 10^6 THEN 6 ELSE 7)
        ELSE IF n < 10^8 THEN 8 ELSE IF n < 10^9 THEN 9 ELSE 10)

\* the float nearest to n * 10^x, |n| < 2^31
Norm(n, x) ==
  IF n = 0 THEN Zero
  ELSE LET a == Abs(n)
           d == NDigits(a)
       IN IF d <= 8
          THEN [m |-> Sgn(n) * a * 10^(8 - d), e |-> x - (8 - d)]
          ELSE LET r == RoundDiv(a, d - 8)
               IN IF r = MHI
                  THEN [m |-> Sgn(n) * MLO, e |-> x + (d - 8) + 1]
                  ELSE [m |-> Sgn(n) * r, e |-> x + (d - 8)]

\* a float literal
F(n, x) == Norm(n, x)

FNeg(x) == [m |-> -x.m, e |-> x.e]

\* x + y, with one guard digit
FAddOrd(x, y) ==
  \* x.e >= y.e, both nonzero
  LET d == x.e - y.e
  IN IF d = 0 THEN Norm(x.m + y.m, x.e)
     ELSE IF d > 10 THEN x
     ELSE Norm(x.m * 10 + Sgn(y.m) * RoundDiv(Abs(y.m), d - 1), x.e - 1)

FAdd(x, y) ==
  IF x.m = 0 THEN y
  ELSE IF y.m = 0 THEN x
  ELSE IF x.e >= y.e THEN FAddOrd(x, y) ELSE FAddOrd(y, x)

FSub(x, y) == FAdd(x, FNeg(y))

\* x * y: the 16-digit product of the mantissas, cut to 9 digits and rounded
FMul(x, y) ==
  IF x.m = 0 \/ y.m = 0 THEN Zero
  ELSE LET a == Abs(x.m)
           b == Abs(y.m)
           a1 == a \div T4
           a0 == a % T4
           b1 == b \div T4
           b0 == b % T4
           hi == a1 * b1
           mid == a1 * b0 + a0 * b1
           lo == a0 * b0
           p == 10 * hi + (mid + lo \div T4) \div 1000
       IN Norm(Sgn(x.m) * Sgn(y.m) * p, x.e + y.e + 7)

RECURSIVE LongDiv(_, _, _, _)
LongDiv(r, b, k, acc) ==
  IF k = 0 THEN acc
  ELSE LongDiv((r * 10) % b, b, k - 1, acc * 10 + (r * 10) \div b)

\* x / y for y # 0 (Python raises ZeroDivisionError for y = 0)
FDiv(x, y) ==
  IF x.m = 0 THEN Zero
  ELSE LET a == Abs(x.m)
           b == Abs(y.m)
           q == LongDiv(a % b, b, 8, a \div b)
       IN Norm(Sgn(x.m) * Sgn(y.m) * q, x.e - y.e - 8)

FLt(x, y) ==
  IF x.m = 0 THEN y.m > 0
  ELSE IF y.m = 0 THEN x.m < 0
  ELSE IF Sgn(x.m) # Sgn(y.m) THEN x.m < 0
  ELSE IF x.m > 0
       THEN x.e < y.e \/ (x.e = y.e /\ x.m < y.m)
       ELSE x.e > y.e \/ (x.e = y.e /\ x.m < y.m)

FGt(x, y) == FLt(y, x)
FLe(x, y) == ~FLt(y, x)
FGe(x, y) == ~FLt(x, y)

One == F(1, 0)

\* the integer nearest to x, for |x| < 10^8
FRound(x) ==
  IF x.m = 0 THEN 0
  ELSE IF x.e >= 0 THEN x.m * 10^(x.e)
  ELSE IF x.e < -8 THEN 0
  ELSE Sgn(x.m) * RoundDiv(Abs(x.m), -x.e)

Ln10 == F(23025851, -7)
Ln2 == F(69314718, -8)

\* a * b / 10^8 for integers |a|, b < 4 * 10^8, b >= 0, cut towards zero
MulS(a, b) ==
  LET a1 == Abs(a) \div T4
      a0 == Abs(a) % T4
      b1 == b \div T4
      b0 == b % T4
  IN Sgn(a) * (a1 * b1 + (a1 * b0 + a0 * b1 + (a0 * b0) \div T4) \div T4)

\* x * 10^8 as an integer, for |x| < 20
ToFix(x) ==
  IF x.e >= -8 THEN x.m * 10^(x.e + 8)
  ELSE IF x.e < -16 THEN 0
  ELSE Sgn(x.m) * RoundDiv(Abs(x.m), -(x.e + 8))

\* 1 + r/i * (1 + r/(i+1) * (... (1 + r/n))) in units of 10^-8: the Taylor
\* polynomial of exp
RECURSIVE ExpPoly(_, _, _)
ExpPoly(r, i, n) ==
  IF i > n THEN MHI
  ELSE LET t == MulS(r, ExpPoly(r, i + 1, n))
       IN MHI + Sgn(t) * (Abs(t) \div i)

InvLn10 == F(43429448, -8)

\* math.exp: x = k*ln10 + r, exp(x) = 10^k * (exp(r/8))^8
Sq(a) == MulS(a, a)
ExpReduced(r, k) ==
  Norm(Sq(Sq(Sq(ExpPoly(Sgn(r) * (Abs(r) \div 8), 1, 8)))), k - 8)
ExpSplit(x, k) == ExpReduced(ToFix(FSub(x, FMul(F(k, 0), Ln10))), k)
FExp(x) == ExpSplit(x, FRound(FMul(x, InvLn10)))

\* math.exp raises OverflowError above ln(DBL_MAX)
ExpMax == F(70978271, -5)

\* 2 * (w + w^3/3 + w^5/5 + ...), the series of ln((1+w)/(1-w))
RECURSIVE LnSeries(_, _, _, _)
LnSeries(w2, p, i, n) ==
  IF i > n THEN Zero
  ELSE FAdd(FDiv(p, F(i, 0)), LnSeries(w2, FMul(p, w2), i + 2, n))

\* ln of a float z with 1 <= z < 10
LnAtanh(j, w) ==
  FAdd(FMul(F(j, 0), Ln2), FMul(F(2, 0), LnSeries(FMul(w, w), w, 1, 17)))
LnHalved(j, y) == LnAtanh(j, FDiv(FSub(y, One), FAdd(y, One)))
LnShift(z, j) == LnHalved(j, FDiv(z, F(2^j, 0)))
LnMant(z) ==
  LnShift(z, IF FLt(z, F(2, 0)) THEN 0 ELSE IF FLt(z, F(4, 0)) THEN 1
             ELSE IF FLt(z, F(8, 0)) THEN 2 ELSE 3)

\* math.log for x > 0 (Python raises ValueError for x <= 0)
FLn(x) ==
  FAdd(FMul(F(x.e + 7, 0), Ln10), LnMant([m |-> x.m, e |-> -7]))

-----------------------------------------------------------------------------
(* Planets                                                                 *)

\* a call's outcome: the value returned or the exception raised, and the
\* memo cache the call leaves behind
Ok(v, c) == [val |-> v, exc |-> "", cache |-> c]
Raise(x, c) == [val |-> Zero, exc |-> x, cache |-> c]

\* memoized(func): the cached result under key, else func's result r (itself
\* computed from cache c), stored unless func raised
memoized(c, key, r) ==
  IF key \in DOMAIN c THEN Ok(c[key], c)
  ELSE IF r.exc # "" THEN r
  ELSE Ok(r.val, (key :> r.val) @@ r.cache)

\* Atmosphere(pressure, height); id is the object's identity
Atmosphere(id, pressure, height) ==
  [id |-> id, _pressure |-> pressure, _height |-> height]

\* Atmosphere.height, the function under the memo:
\* -log(1.0e-6 / self._pressure) * self._height
height_of(atm, q, c) ==
  IF q.m <= 0 THEN Raise("ValueError", c)
  ELSE Ok(FMul(FNeg(FLn(q)), atm._height), c)

height_fn(atm, c) ==
  IF atm._pressure.m = 0 THEN Raise("ZeroDivisionError", c)
  ELSE height_of(atm, FDiv(F(1, -6), atm._pressure), c)

Atmosphere_height(atm, c) == memoized(c, <<"height", atm.id>>, height_fn(atm, c))

\* Atmosphere.pressure(altitude), h the outcome of reading self.height
\* variant: the pressure formula without the cut at the atmosphere's height
pressure_uncut(atm, altitude, h) ==
  IF h.exc # "" THEN h
  ELSE IF atm._height.m = 0 THEN Raise("ZeroDivisionError", h.cache)
  ELSE Ok(FMul(atm._pressure, FExp(FDiv(FNeg(altitude), atm._height))), h.cache)

pressure_below(atm, altitude, h) ==
  IF h.exc # "" THEN h
  ELSE IF FGt(altitude, h.val) THEN Ok(Zero, h.cache)
  ELSE IF atm._height.m = 0 THEN Raise("ZeroDivisionError", h.cache)
  ELSE IF FGt(FDiv(FNeg(altitude), atm._height), ExpMax)
  THEN Raise("OverflowError", h.cache)
  ELSE Ok(FMul(atm._pressure, FExp(FDiv(FNeg(altitude), atm._height))), h.cache)

Atmosphere_pressure(atm, altitude, c) ==
  pressure_below(atm, altitude, Atmosphere_height(atm, c))

\* Planet(name, mass, radius, atmosphere); atmosphere is <<>> (None) or <<a>>,
\* id is the object's identity
Planet(id, mass, radius, atmosphere) ==
  [id |-> id, mass |-> mass, radius |-> radius, atmosphere |-> atmosphere]

GravConst == F(66725985, -18)

\* Planet.g_force(altitude, mass)
g_force_at(planet, distance, mass, c) ==
  IF distance.m = 0 THEN Raise("ZeroDivisionError", c)
  ELSE Ok(FDiv(FMul(FMul(GravConst, mass), planet.mass), FMul(distance, distance)),
          c)

g_force(planet, altitude, mass, c) ==
  g_force_at(planet, FAdd(planet.radius, altitude), mass, c)

\* Planet.gravity
Planet_gravity(planet, c) ==
  memoized(c, <<"gravity", planet.id>>, g_force(planet, Zero, One, c))

RhoPerAtm == F(12230949, -7)

\* Planet.d_force(altitude, velocity, mass, drag), p the outcome of
\* self.atmosphere.pressure(altitude)
d_force_in(p, velocity, mass, drag) ==
  IF p.exc # "" THEN p
  ELSE Ok(FMul(FMul(FMul(FMul(F(5, -1), FMul(p.val, RhoPerAtm)),
                         FMul(velocity, velocity)),
                    FMul(F(8, -3), mass)),
               drag),
          p.cache)

d_force(planet, altitude, velocity, mass, drag, c) ==
  IF planet.atmosphere = <<>> THEN Ok(Zero, c)
  ELSE d_force_in(Atmosphere_pressure(planet.atmosphere[1], altitude, c),
                  velocity, mass, drag)

\* Planet.terminal_velocity(altitude, drag): whether it returns or raises, and
\* the memo cache it leaves; the value is not modelled (val is Zero)
tv_ratio(g, den, c) ==
  IF den.m = 0 THEN Raise("ZeroDivisionError", c)
  ELSE IF FLt(FDiv(g, den), Zero) THEN Raise("ValueError", c)
  ELSE Ok(Zero, c)

tv_gravity(g, den) ==
  IF g.exc # "" THEN g ELSE tv_ratio(g.val, den, g.cache)

tv_rho(planet, altitude, drag, p) ==
  IF p.exc # "" THEN p
  ELSE tv_gravity(g_force(planet, altitude, F(250, 0), p.cache),
                  FMul(FMul(p.val, RhoPerAtm), drag))

terminal_velocity(planet, altitude, drag, c) ==
  IF planet.atmosphere = <<>> THEN Ok(Zero, c)
  ELSE tv_rho(planet, altitude, drag,
              Atmosphere_pressure(planet.atmosphere[1], altitude, c))

Kerbin == Planet(0, F(52915793, 15), F(6, 5), <<Atmosphere(0, F(1, 0), F(5, 3))>>)

-----------------------------------------------------------------------------
(* Rocket parts                                                            *)

Component(mass, drag) ==
  [cls |-> "Component", _mass |-> mass, _drag |-> drag,
   _drag_stowed |-> Zero, _drag_deployed |-> Zero,
   _thrust |-> Zero, _isp_atm |-> Zero, _isp_vac |-> Zero,
   _mass_fuel |-> Zero, mass_full |-> Zero]

Parachute(mass, drag_stowed, drag_deployed) ==
  [Component(mass, drag_stowed) EXCEPT
     !.cls = "Parachute", !._drag_stowed = drag_stowed,
     !._drag_deployed = drag_deployed]

Engine(mass, drag, thrust, isp_atm, isp_vac) ==
  [Component(mass, drag) EXCEPT
     !.cls = "Engine", !._thrust = thrust, !._isp_atm = isp_atm,
     !._isp_vac = isp_vac]

Tank(mass, drag, mass_fuel) ==
  [Component(mass, drag) EXCEPT !.cls = "Tank", !._mass_fuel = mass_fuel]

SRB(mass, drag, mass_fuel, thrust, isp_atm, isp_vac) ==
  [Engine(mass, drag, thrust, isp_atm, isp_vac) EXCEPT
     !.cls = "SRB", !._mass_fuel = mass_fuel, !.mass_full = mass]

\* the catalog's module-level objects
PartNames == {"CommandPodMk1", "MK16", "LV_909", "FL_T400", "RT_10", "BACC"}

Catalog(n) ==
  CASE n = "CommandPodMk1" -> Component(F(84, -2), F(2, -1))
    [] n = "MK16" -> Parachute(F(1, -1), F(22, -2), F(500, 0))
    [] n = "LV_909" -> Engine(F(5, -1), F(2, -1), F(50, 0), F(300, 0), F(390, 0))
    [] n = "FL_T400" -> Tank(F(225, -2), F(2, -1), F(2, 0))
    [] n = "RT_10" -> SRB(F(37475, -4), F(3, -1), F(325, -2), F(250, 0),
                          F(225, 0), F(240, 0))
    [] n = "BACC" -> SRB(F(7875, -3), F(3, -1), F(637, -2), F(315, 0),
                         F(230, 0), F(250, 0))

\* zope.interface: X.providedBy(part)
IComponent(x) == x.cls \in {"Component", "Parachute", "Engine", "Tank", "SRB"}
IParachute(x) == x.cls = "Parachute"
IEngine(x) == x.cls \in {"Engine", "SRB"}
ITank(x) == x.cls \in {"Tank", "SRB"}

\* variant: a deploy that leaves the drag alone
deploy_noop(x) == [x EXCEPT !._drag = x._drag]

\* Parachute.deploy / Parachute.stow
deploy(x) == [x EXCEPT !._drag = x._drag_deployed]
stow(x) == [x EXCEPT !._drag = x._drag_stowed]

\* SRB.is_on
is_on(x) == FGt(x._mass, FSub(x.mass_full, x._mass_fuel))

\* the thrust property of Engine and of SRB
thrust(x) ==
  IF x.cls = "SRB" THEN (IF is_on(x) THEN x._thrust ELSE Zero) ELSE x._thrust

\* SRB.isp(pressure)
isp(x, pressure) ==
  FAdd(FMul(FSub(x._isp_atm, x._isp_vac), pressure), x._isp_vac)

StdGravity == F(982, -2)

\* SRB.tick(duration, pressure); ZeroDivisionError when isp(pressure) is 0
tickRaises(x, pressure) == isp(x, pressure).m = 0

\* variant: a tick that does not subtract the burned mass
tick_unburnt(x, duration, pressure) == [x EXCEPT !._mass = x._mass]

\* variant: a tick that burns at the rated thrust whether on or off
tick_rated(x, duration, pressure) ==
  [x EXCEPT !._mass =
     FSub(x._mass,
          FMul(FDiv(x._thrust, FMul(isp(x, pressure), StdGravity)), duration))]

tick(x, duration, pressure) ==
  [x EXCEPT !._mass =
     FSub(x._mass,
          FMul(FDiv(thrust(x), FMul(isp(x, pressure), StdGravity)), duration))]

-----------------------------------------------------------------------------
(* Stage                                                                   *)

\* sum(xs): left to right from 0
RECURSIVE SumF(_, _)
SumF(xs, acc) == IF xs = <<>> THEN acc ELSE SumF(Tail(xs), FAdd(acc, Head(xs)))

sum(xs) == SumF(xs, Zero)

\* Stage.__init__: the engine, tank and parachute sub-lists (of part names)
IsEngine(n) == IEngine(Catalog(n))
IsTank(n) == ITank(Catalog(n))
IsChute(n) == IParachute(Catalog(n))
StageEngines(components) == SelectSeq(components, IsEngine)
StageTanks(components) == SelectSeq(components, IsTank)
StageChutes(components) == SelectSeq(components, IsChute)

Stage(components) ==
  [components |-> components, engines |-> StageEngines(components),
   tanks |-> StageTanks(components), chutes |-> StageChutes(components)]

\* the memo key of a call on the stage: (self,) is NoArg, (self, planet) is
\* the planet's identity
NoArg == -1

\* Stage.mass
Stage_mass(st, ps) == sum([i \in 1..Len(st.components) |-> ps[st.components[i]]._mass])

\* Stage.mass_fuel (memoized); a member without mass_fuel: AttributeError
mass_fuel_fn(st, ps, c) ==
  IF \E i \in 1..Len(st.tanks) : ~ITank(ps[st.tanks[i]])
  THEN Raise("AttributeError", c)
  ELSE Ok(sum([i \in 1..Len(st.tanks) |-> ps[st.tanks[i]]._mass_fuel]), c)

Stage_mass_fuel(st, ps, c) ==
  memoized(c, <<"mass_fuel", NoArg>>, mass_fuel_fn(st, ps, c))

\* Stage.drag
Stage_drag(st, ps, c) ==
  IF Stage_mass(st, ps).m = 0 THEN Raise("ZeroDivisionError", c)
  ELSE Ok(FDiv(sum([i \in 1..Len(st.components) |->
                         FMul(ps[st.components[i]]._mass,
                              ps[st.components[i]]._drag)]),
               Stage_mass(st, ps)), c)

\* Stage.thrust
Stage_thrust(st, ps) == sum([i \in 1..Len(st.engines) |-> thrust(ps[st.engines[i]])])

\* Stage.isp_atm / Stage.isp_vac, the function under the memo; which is
\* "_isp_atm" or "_isp_vac"
isp_ratio(st, ps, denom, c) ==
  IF denom.m = 0 THEN Raise("ZeroDivisionError", c)
  ELSE Ok(FDiv(Stage_thrust(st, ps), denom), c)

isp_fn(st, ps, which, c) ==
  IF \E i \in 1..Len(st.engines) : ps[st.engines[i]][which].m = 0
  THEN Raise("ZeroDivisionError", c)
  ELSE isp_ratio(st, ps,
                 sum([i \in 1..Len(st.engines) |->
                        FDiv(thrust(ps[st.engines[i]]), ps[st.engines[i]][which])]),
                 c)

Stage_isp_atm(st, ps, c) ==
  memoized(c, <<"isp_atm", NoArg>>, isp_fn(st, ps, "_isp_atm", c))

Stage_isp_vac(st, ps, c) ==
  memoized(c, <<"isp_vac", NoArg>>, isp_fn(st, ps, "_isp_vac", c))

Stage_isp(st, ps, which, c) ==
  IF which = "_isp_atm" THEN Stage_isp_atm(st, ps, c) ELSE Stage_isp_vac(st, ps, c)

\* Stage.dv_atm / Stage.dv_vac, the function under the memo:
\* log(ms / me) * self.isp * planet.gravity, evaluated left to right
dv_gravity(li, g) ==
  IF g.exc # "" THEN g ELSE Ok(FMul(li, g.val), g.cache)

dv_isp(planet, l, i) ==
  IF i.exc # "" THEN i
  ELSE dv_gravity(FMul(l, i.val), Planet_gravity(planet, i.cache))

dv_log(st, ps, planet, which, q, c) ==
  IF q.m <= 0 THEN Raise("ValueError", c)
  ELSE dv_isp(planet, FLn(q), Stage_isp(st, ps, which, c))

dv_ratio(st, ps, planet, which, ms, me, c) ==
  IF me.m = 0 THEN Raise("ZeroDivisionError", c)
  ELSE dv_log(st, ps, planet, which, FDiv(ms, me), c)

dv_fuel(st, ps, planet, which, mf) ==
  IF mf.exc # "" THEN mf
  ELSE dv_ratio(st, ps, planet, which, Stage_mass(st, ps),
                FSub(Stage_mass(st, ps), mf.val), mf.cache)

dv_fn(st, ps, planet, which, c) ==
  dv_fuel(st, ps, planet, which, Stage_mass_fuel(st, ps, c))

\* Stage.dv_atm(planet) / Stage.dv_vac(planet) (memoized); arg is the memo
\* key's planet part
Stage_dv_atm(st, ps, planet, arg, c) ==
  memoized(c, <<"dv_atm", arg>>, dv_fn(st, ps, planet, "_isp_atm", c))

Stage_dv_vac(st, ps, planet, arg, c) ==
  memoized(c, <<"dv_vac", arg>>, dv_fn(st, ps, planet, "_isp_vac", c))

\* Stage.twr(planet), the function under the memo:
\* thrust / (mass * planet.gravity)
twr_weight(st, ps, w, c) ==
  IF w.m = 0 THEN Raise("ZeroDivisionError", c)
  ELSE Ok(FDiv(Stage_thrust(st, ps), w), c)

twr_gravity(st, ps, g) ==
  IF g.exc # "" THEN g
  ELSE twr_weight(st, ps, FMul(Stage_mass(st, ps), g.val), g.cache)

twr_fn(st, ps, planet, c) == twr_gravity(st, ps, Planet_gravity(planet, c))

Stage_twr(st, ps, planet, arg, c) ==
  memoized(c, <<"twr", arg>>, twr_fn(st, ps, planet, c))

-----------------------------------------------------------------------------
(* Simulation                                                              *)

\* Simulation.running(): the list comprehension calls is_on() on every
\* engine; a member without is_on: AttributeError
runningRaises(st, ps) ==
  \E i \in 1..Len(st.engines) : ps[st.engines[i]].cls # "SRB"

running(st, ps, alt) ==
  (\E i \in 1..Len(st.engines) : is_on(ps[st.engines[i]])) \/ FGt(alt, Zero)

\* the state a call of Simulation.tick leaves, and the exception it raised
SimState(alt, vel, t, ps, c, exc) ==
  [altitude |-> alt, velocity |-> vel, time |-> t, parts |-> ps, cache |-> c,
   exc |-> exc]

\* the loop "for engine in self.rocket.engines: engine.tick(duration,
\* self.planet.atmosphere.pressure(self.altitude))" from engine i on;
\* TickEngine is its body, p the outcome of the pressure call
RECURSIVE TickEngines(_, _, _, _, _, _, _)
TickEngine(engines, i, ps, planet, alt, duration, p) ==
  IF p.exc # "" THEN [parts |-> ps, exc |-> p.exc, cache |-> p.cache]
  ELSE IF tickRaises(ps[engines[i]], p.val)
  THEN [parts |-> ps, exc |-> "ZeroDivisionError", cache |-> p.cache]
  ELSE TickEngines(engines, i + 1,
                   [ps EXCEPT ![engines[i]] = tick(@, duration, p.val)],
                   planet, alt, duration, p.cache)

TickEngines(engines, i, ps, planet, alt, duration, c) ==
  IF i > Len(engines) THEN [parts |-> ps, exc |-> "", cache |-> c]
  ELSE IF ps[engines[i]].cls # "SRB" \/ planet.atmosphere = <<>>
  THEN [parts |-> ps, exc |-> "AttributeError", cache |-> c]
  ELSE TickEngine(engines, i, ps, planet, alt, duration,
                  Atmosphere_pressure(planet.atmosphere[1], alt, c))

SimTicked(alt, vel, t, e) == SimState(alt, vel, t, e.parts, e.cache, e.exc)

\* the statements from "self.altitude += ..." to the end of
\* Simulation.tick, given the acceleration a
SimEngines(st, ps, planet, alt, vel, t, duration, c) ==
  SimTicked(alt, vel, t, TickEngines(st.engines, 1, ps, planet, alt, duration, c))

\* variant: the velocity integrated before the position
SimUpdate_velocity_first(st, ps, planet, alt, vel, t, duration, a, c) ==
  SimEngines(st, ps, planet,
             FAdd(alt, FMul(FAdd(vel, FMul(a, duration)), duration)),
             FAdd(vel, FMul(a, duration)), FAdd(t, duration), duration, c)

SimUpdate(st, ps, planet, alt, vel, t, duration, a, c) ==
  SimEngines(st, ps, planet, FAdd(alt, FMul(vel, duration)),
             FAdd(vel, FMul(a, duration)), FAdd(t, duration), duration, c)

drag_factor(vel) == IF FLt(vel, Zero) THEN FNeg(One) ELSE One

\* Simulation.tick(duration): the force f and the acceleration a = f / mass
SimDrag(st, ps, planet, alt, vel, t, duration, mass, gv, d) ==
  IF d.exc # "" THEN SimState(alt, vel, t, ps, d.cache, d.exc)
  ELSE SimUpdate(st, ps, planet, alt, vel, t, duration,
                 FDiv(FSub(FSub(Stage_thrust(st, ps), gv),
                           FMul(drag_factor(vel), d.val)),
                      mass),
                 d.cache)

SimForces(st, ps, planet, alt, vel, t, duration, mass, g, dr, c) ==
  IF g.exc # "" THEN SimState(alt, vel, t, ps, c, g.exc)
  ELSE IF dr.exc # "" THEN SimState(alt, vel, t, ps, c, dr.exc)
  ELSE SimDrag(st, ps, planet, alt, vel, t, duration, mass, g.val,
               d_force(planet, alt, vel, mass, dr.val, c))

SimMass(st, ps, planet, alt, vel, t, duration, mass, c) ==
  SimForces(st, ps, planet, alt, vel, t, duration, mass,
            g_force(planet, alt, mass, c), Stage_drag(st, ps, c), c)

Simulation_tick(st, ps, planet, alt, vel, t, duration, c) ==
  SimMass(st, ps, planet, alt, vel, t, duration, Stage_mass(st, ps), c)

-----------------------------------------------------------------------------
(* State                                                                   *)

VARIABLES
  parts,       \* part name -> the part object's fields (the catalog's objects)
  rocket,      \* the Stage (Simulation.rocket)
  planet,      \* the Planet (Simulation.planet)
  atmosphere,  \* the Atmosphere last constructed: <<a>>, or <<>>
  cache,       \* the memo caches: <<function, key>> -> value
  altitude,    \* Simulation.altitude
  velocity,    \* Simulation.velocity
  time,        \* Simulation.time
  ret,         \* the last call: what was called, with what, and its outcome
  calls,       \* the number of calls made
  pc           \* "console" (interact), "run" (inside Simulation.run), "done",
               \* "failed" (run ended by an exception)

vars == <<parts, rocket, planet, atmosphere, cache, altitude, velocity, time,
          ret, calls, pc>>

Ret(op, who, key, args, exc, val, flag) ==
  [op |-> op, who |-> who, key |-> key, args |-> args, exc |-> exc,
   val |-> val, flag |-> flag]

\* bounds of the exploration
MaxCalls == 3
MaxTicks == 27000

\* inputs
Durations == {Zero, F(1, -2), F(20, 0), F(50, 0)}
Pressures == {Zero, One}
BurnSteps == {F(20, 0), F(50, 0)}
TickSteps == {F(1, -2), F(33333333, -9), One, F(5, 0)}
StageLists ==
  { <<"CommandPodMk1", "BACC">>,
    <<"CommandPodMk1">>,
    <<"CommandPodMk1", "LV_909">>,
    <<"CommandPodMk1", "MK16", "LV_909", "FL_T400">>,
    <<>> }
Airless == Planet(1, F(97600000, 13), F(2, 5), <<>>)
Pointlike == Planet(2, F(97600000, 13), Zero, <<>>)
Planets == {Kerbin, Airless, Pointlike}
ConsoleStages ==
  { <<"CommandPodMk1", "BACC">>,
    <<"CommandPodMk1", "LV_909", "FL_T400">>,
    <<"CommandPodMk1", "BACC", "LV_909">> }
AtmPressures == {F(-1, 0), Zero, F(5, -1)}
AtmHeights == {F(-5, 3), Zero, F(7, 3)}
PlanetSizes == {<<F(52915793, 15), F(6, 5)>>, <<Zero, Zero>>, <<F(-1, 22), F(-6, 5)>>}
Velocities == {Zero, F(-1, 3)}
FirstId == 10

\* the module's objects, and Simulation.__init__
Init ==
  /\ parts = [n \in PartNames |-> Catalog(n)]
  /\ rocket = Stage(<<"CommandPodMk1", "BACC">>)
  /\ planet = Kerbin
  /\ atmosphere = Kerbin.atmosphere
  /\ cache = <<>>
  /\ altitude = Zero
  /\ velocity = Zero
  /\ time = Zero
  /\ ret = Ret("", "", NoArg, <<>>, "", Zero, FALSE)
  /\ calls = 0
  /\ pc = "console"

\* the same, with a Stage built at the console from catalog parts
InitStage ==
  /\ parts = [n \in PartNames |-> Catalog(n)]
  /\ rocket \in {Stage(l) : l \in StageLists}
  /\ planet = Kerbin
  /\ atmosphere = Kerbin.atmosphere
  /\ cache = <<>>
  /\ altitude = Zero
  /\ velocity = Zero
  /\ time = Zero
  /\ ret = Ret("", "", NoArg, <<>>, "", Zero, FALSE)
  /\ calls = 0
  /\ pc = "console"

Called == calls' = calls + 1

-----------------------------------------------------------------------------
(* Calls on parts and on the stage                                         *)

SRBs == {n \in PartNames : Catalog(n).cls = "SRB"}
Chutes == {n \in PartNames : Catalog(n).cls = "Parachute"}

\* n.tick(duration, pressure) for a solid booster n
SRBTick(n, duration, pressure) ==
  /\ pc = "console" /\ calls < MaxCalls
  /\ IF tickRaises(parts[n], pressure)
     THEN /\ parts' = parts
          /\ ret' = Ret("SRB.tick", n, NoArg, <<duration, pressure>>,
                        "ZeroDivisionError", Zero, FALSE)
     ELSE /\ parts' = [parts EXCEPT ![n] = tick(@, duration, pressure)]
          /\ ret' = Ret("SRB.tick", n, NoArg, <<duration, pressure>>, "", Zero,
                        FALSE)
  /\ Called
  /\ UNCHANGED <<rocket, planet, atmosphere, cache, altitude, velocity, time, pc>>

\* n.deploy() for a parachute n
ChuteDeploy(n) ==
  /\ pc = "console" /\ calls < MaxCalls
  /\ parts' = [parts EXCEPT ![n] = deploy(@)]
  /\ ret' = Ret("deploy", n, NoArg, <<>>, "", Zero, FALSE)
  /\ Called
  /\ UNCHANGED <<rocket, planet, atmosphere, cache, altitude, velocity, time, pc>>

\* n.stow() for a parachute n
ChuteStow(n) ==
  /\ pc = "console" /\ calls < MaxCalls
  /\ parts' = [parts EXCEPT ![n] = stow(@)]
  /\ ret' = Ret("stow", n, NoArg, <<>>, "", Zero, FALSE)
  /\ Called
  /\ UNCHANGED <<rocket, planet, atmosphere, cache, altitude, velocity, time, pc>>

PlainAccessors == {"mass", "drag", "thrust", "mass_fuel", "isp_atm", "isp_vac"}
PlanetAccessors == {"dv_atm", "dv_vac", "twr"}

\* the planet a call with memo key k computes with: Kerbin by default
PlanetOf(k) ==
  IF k = NoArg THEN Kerbin ELSE CHOOSE q \in Planets : q.id = k

\* the outcome of reading accessor acc of stage st, called with key k (NoArg
\* for a property, or a call without the planet argument), from cache c
StageRead(st, ps, acc, k, c) ==
  CASE acc = "mass" -> Ok(Stage_mass(st, ps), c)
    [] acc = "drag" -> Stage_drag(st, ps, c)
    [] acc = "thrust" -> Ok(Stage_thrust(st, ps), c)
    [] acc = "mass_fuel" -> Stage_mass_fuel(st, ps, c)
    [] acc = "isp_atm" -> Stage_isp_atm(st, ps, c)
    [] acc = "isp_vac" -> Stage_isp_vac(st, ps, c)
    [] acc = "dv_atm" -> Stage_dv_atm(st, ps, PlanetOf(k), k, c)
    [] acc = "dv_vac" -> Stage_dv_vac(st, ps, PlanetOf(k), k, c)
    [] acc = "twr" -> Stage_twr(st, ps, PlanetOf(k), k, c)

Returned(acc, k, r) ==
  /\ cache' = r.cache
  /\ ret' = Ret(acc, "", k, <<>>, r.exc, r.val, FALSE)

\* rocket.<acc>, rocket.<acc>() or rocket.<acc>(planet)
Read(acc, k) ==
  /\ pc = "console" /\ calls < MaxCalls
  /\ Returned(acc, k, StageRead(rocket, parts, acc, k, cache))
  /\ Called
  /\ UNCHANGED <<parts, rocket, planet, atmosphere, altitude, velocity, time, pc>>

\* the stage and its accessors, with the stage's boosters burning
Next ==
  \/ \E i \in 1..Len(rocket.engines), d \in BurnSteps :
       /\ rocket.engines[i] \in SRBs
       /\ SRBTick(rocket.engines[i], d, One)
  \/ \E acc \in PlainAccessors : Read(acc, NoArg)
  \/ \E acc \in PlanetAccessors, k \in {NoArg} \cup {q.id : q \in Planets} :
       Read(acc, k)

Spec == InitStage /\ [][Next]_vars

\* the parts on their own
NextParts ==
  \/ \E n \in SRBs, d \in Durations, p \in Pressures : SRBTick(n, d, p)
  \/ \E n \in Chutes : ChuteDeploy(n)
  \/ \E n \in Chutes : ChuteStow(n)

SpecParts == Init /\ [][NextParts]_vars

-----------------------------------------------------------------------------
(* Planets and atmospheres built at the console                            *)

\* Atmosphere(pressure, height)
NewAtmosphere(pressure, height) ==
  /\ pc = "console" /\ calls < MaxCalls
  /\ atmosphere' = <<Atmosphere(FirstId + calls, pressure, height)>>
  /\ ret' = Ret("Atmosphere", "", NoArg, <<pressure, height>>, "", Zero, FALSE)
  /\ Called
  /\ UNCHANGED <<parts, rocket, planet, cache, altitude, velocity, time, pc>>

\* Planet(name, mass, radius, atmosphere)
NewPlanet(mass, radius, atm) ==
  /\ pc = "console" /\ calls < MaxCalls
  /\ planet' = Planet(FirstId + calls, mass, radius, atm)
  /\ ret' = Ret("Planet", "", NoArg, <<mass, radius>>, "", Zero, FALSE)
  /\ Called
  /\ UNCHANGED <<parts, rocket, atmosphere, cache, altitude, velocity, time, pc>>

DForceReturned(args, r) ==
  /\ cache' = r.cache
  /\ ret' = Ret("d_force", "", NoArg, args, r.exc, r.val, FALSE)

\* planet.d_force(alt, vel, mass, drag)
CallDForce(alt, vel, mass, drag) ==
  /\ pc = "console" /\ calls < MaxCalls
  /\ DForceReturned(<<alt, vel, mass, drag>>,
                    d_force(planet, alt, vel, mass, drag, cache))
  /\ Called
  /\ UNCHANGED <<parts, rocket, planet, atmosphere, altitude, velocity, time, pc>>

\* altitudes to call with: the surface, far out, and around the height h
\* read from planet.atmosphere.height
AltitudesAround(h) ==
  IF h.exc # "" THEN {}
  ELSE {h.val, FAdd(h.val, One), FSub(h.val, One)}

Altitudes ==
  {Zero, F(1, 5)} \cup
  (IF planet.atmosphere = <<>> THEN {}
   ELSE AltitudesAround(Atmosphere_height(planet.atmosphere[1], cache)))

NextPlanet ==
  \/ \E p \in AtmPressures, h \in AtmHeights : NewAtmosphere(p, h)
  \/ \E sz \in PlanetSizes, a \in {<<>>, atmosphere} : NewPlanet(sz[1], sz[2], a)
  \/ \E alt \in Altitudes, v \in Velocities :
       CallDForce(alt, v, Stage_mass(rocket, parts), F(2, -1))

SpecPlanet == Init /\ [][NextPlanet]_vars

-----------------------------------------------------------------------------
(* The Simulation                                                          *)

\* sim.running()
SimRunning ==
  /\ pc = "console" /\ calls < MaxCalls
  /\ ret' = IF runningRaises(rocket, parts)
            THEN Ret("running", "", NoArg, <<>>, "AttributeError", Zero, FALSE)
            ELSE Ret("running", "", NoArg, <<>>, "", Zero,
                     running(rocket, parts, altitude))
  /\ Called
  /\ UNCHANGED <<parts, rocket, planet, atmosphere, cache, altitude, velocity,
                 time, pc>>

Ticked(duration, r) ==
  /\ altitude' = r.altitude
  /\ velocity' = r.velocity
  /\ time' = r.time
  /\ parts' = r.parts
  /\ cache' = r.cache
  /\ ret' = Ret("tick", "", NoArg, <<duration>>, r.exc, Zero, FALSE)

\* sim.tick(duration)
SimTick(duration) ==
  /\ pc = "console" /\ calls < MaxCalls
  /\ Ticked(duration, Simulation_tick(rocket, parts, planet, altitude, velocity,
                                      time, duration, cache))
  /\ Called
  /\ UNCHANGED <<rocket, planet, atmosphere, pc>>

NextSim ==
  \/ SimRunning
  \/ \E d \in TickSteps : SimTick(d)

\* the Simulation as Simulation.__init__ builds it
SpecSim == Init /\ [][NextSim]_vars

\* the Simulation with sim.rocket set at the console
InitConsole ==
  /\ parts = [n \in PartNames |-> Catalog(n)]
  /\ rocket \in {Stage(l) : l \in ConsoleStages}
  /\ planet = Kerbin
  /\ atmosphere = Kerbin.atmosphere
  /\ cache = <<>>
  /\ altitude = Zero
  /\ velocity = Zero
  /\ time = Zero
  /\ ret = Ret("", "", NoArg, <<>>, "", Zero, FALSE)
  /\ calls = 0
  /\ pc = "console"

SpecConsole == InitConsole /\ [][NextSim]_vars

-----------------------------------------------------------------------------
(* Simulation.run(0.01)                                                  *)

Tick001 == F(1, -2)

InitFlight ==
  /\ parts = [n \in PartNames |-> Catalog(n)]
  /\ rocket = Stage(<<"CommandPodMk1", "BACC">>)
  /\ planet = Kerbin
  /\ atmosphere = Kerbin.atmosphere
  /\ cache = <<>>
  /\ altitude = Zero
  /\ velocity = Zero
  /\ time = Zero
  /\ ret = Ret("", "", NoArg, <<>>, "", Zero, FALSE)
  /\ calls = 0
  /\ pc = "run"

\* the loop body after self.tick(tick), r the state the tick left:
\* y2.append(self.planet.terminal_velocity(self.altitude, self.rocket.drag))
LoopPlot(r, tv) == [r EXCEPT !.exc = tv.exc, !.cache = tv.cache]

LoopDrag(r, d) ==
  IF d.exc # "" THEN [r EXCEPT !.exc = d.exc]
  ELSE LoopPlot(r, terminal_velocity(planet, r.altitude, d.val, r.cache))

LoopBody(r) ==
  IF r.exc # "" THEN r ELSE LoopDrag(r, Stage_drag(rocket, r.parts, r.cache))

Looped(r) ==
  /\ altitude' = r.altitude
  /\ velocity' = r.velocity
  /\ time' = r.time
  /\ parts' = r.parts
  /\ cache' = r.cache
  /\ ret' = Ret("run", "", NoArg, <<Tick001>>, r.exc, Zero, FALSE)
  /\ pc' = IF r.exc # "" THEN "failed" ELSE "run"

\* one turn of "while self.running(): self.tick(tick); ..."
LoopTick ==
  /\ pc = "run" /\ calls < MaxTicks
  /\ ~runningRaises(rocket, parts)
  /\ running(rocket, parts, altitude) = TRUE
  /\ Looped(LoopBody(Simulation_tick(rocket, parts, planet, altitude, velocity,
                                     time, Tick001, cache)))
  /\ Called
  /\ UNCHANGED <<rocket, planet, atmosphere>>

\* the loop's end: running() returns False, or raises
LoopExit ==
  /\ pc = "run"
  /\ (runningRaises(rocket, parts) \/ ~running(rocket, parts, altitude)) = TRUE
  /\ pc' = IF runningRaises(rocket, parts) THEN "failed" ELSE "done"
  /\ ret' = Ret("running", "", NoArg, <<>>,
                IF runningRaises(rocket, parts) THEN "AttributeError" ELSE "",
                Zero, FALSE)
  /\ UNCHANGED <<parts, rocket, planet, atmosphere, cache, altitude, velocity,
                 time, calls>>

NextFlight == LoopTick \/ LoopExit

\* the loop is sequential and deterministic: its one behaviour is a chain of
\* turns, counted by calls, that ends in "done" or "failed" or is cut at
\* MaxTicks turns
SpecFlight == InitFlight /\ [][NextFlight]_vars

-----------------------------------------------------------------------------
(* Properties                                                              *)

HasSRB == \E i \in 1..Len(rocket.components) : parts[rocket.components[i]].cls = "SRB"

HasPlainEngine ==
  \E i \in 1..Len(rocket.engines) : parts[rocket.engines[i]].cls = "Engine"

DryMass(x) == FSub(x.mass_full, x._mass_fuel)

SameOutcome(r) == ret.exc = r.exc /\ (r.exc = "" => ret.val = r.val)

ClaimedAccessors ==
  {"mass", "drag", "thrust", "isp_atm", "isp_vac", "dv_atm", "dv_vac", "twr"}

\* C1: on a stage with a solid booster, whatever a stage accessor returns is
\* the value computed from the components' current state, also when the
\* accessor was read before the boosters were ticked
C1AccessorsCurrent ==
  (HasSRB /\ ret.op \in ClaimedAccessors) =>
    SameOutcome(StageRead(rocket, parts, ret.op, ret.key, <<>>))

\* C2: whatever ticks (duration >= 0, pressure in [0,1]) a solid booster has
\* had, its mass is at least its dry mass mass_full - mass_fuel
C2MassAboveDry ==
  \A n \in SRBs : FGe(parts[n]._mass, DryMass(parts[n]))

\* C3: a tick with dt > 0 of a booster that is on strictly decreases its
\* mass; a booster whose mass is at most its dry mass is off, reads thrust 0,
\* keeps its mass through a tick and is still off afterwards
C3TickOf(n) ==
  /\ is_on(parts[n]) /\ FGt(ret'.args[1], Zero) =>
       FLt(parts'[n]._mass, parts[n]._mass)
  /\ FLe(parts[n]._mass, DryMass(parts[n])) =>
       /\ ~is_on(parts[n])
       /\ thrust(parts[n]) = Zero
       /\ parts'[n]._mass = parts[n]._mass
       /\ ~is_on(parts'[n])
       /\ thrust(parts'[n]) = Zero

Landed ==
  /\ pc = "done"
  /\ \A i \in 1..Len(rocket.engines) : ~is_on(parts[rocket.engines[i]])
  /\ FLe(altitude, Zero)
  /\ ~running(rocket, parts, altitude)

\* C4: in the flight of the pod on the BACC booster from Kerbin's surface,
\* running() is true at the start, and the loop "while running(): tick(0.01)"
\* ends after finitely many ticks, with no engine on, the altitude at most 0
\* and running() false: the loop never fails, is never still turning after
\* MaxTicks ticks, and where it has ended the craft has landed
C4FlightEnds ==
  /\ (pc = "run" /\ calls = 0) => running(rocket, parts, altitude)
  /\ pc # "failed"
  /\ ~(pc = "run" /\ calls >= MaxTicks)
  /\ pc = "done" => Landed

C4Witness == Landed /\ calls > 0 /\ calls < MaxTicks /\ FGt(time, F(1, 2))

\* C5: a parachute starts with drag = drag_stowed; deploy() sets the drag to
\* drag_deployed and stow() to drag_stowed, a repeated call changes nothing,
\* no call fails, nothing else changes the parachute, and mass, drag_stowed
\* and drag_deployed never change
C5Call(n) ==
  /\ (ret'.op = "deploy" /\ ret'.who = n) =>
       parts'[n]._drag = parts[n]._drag_deployed /\ ret'.exc = ""
  /\ (ret'.op = "stow" /\ ret'.who = n) =>
       parts'[n]._drag = parts[n]._drag_stowed /\ ret'.exc = ""
  /\ ~(ret'.op \in {"deploy", "stow"} /\ ret'.who = n) => parts'[n] = parts[n]
  /\ (ret'.op \in {"deploy", "stow"} /\ ret'.op = ret.op /\ ret'.who = n
        /\ ret.who = n) => parts'[n] = parts[n]
  /\ parts'[n]._mass = parts[n]._mass
  /\ parts'[n]._drag_stowed = parts[n]._drag_stowed
  /\ parts'[n]._drag_deployed = parts[n]._drag_deployed

C5DeployStow ==
  /\ \A n \in Chutes : parts[n]._drag = parts[n]._drag_stowed
  /\ [][\A n \in Chutes : C5Call(n)]_vars

C5Witness ==
  /\ calls >= 2
  /\ ret.op = "deploy" /\ ret.who = "MK16"
  /\ parts["MK16"]._drag = parts["MK16"]._drag_deployed
  /\ parts["MK16"]._drag # parts["MK16"]._drag_stowed

\* C6: on a stage without tanks, whatever its engines, mass_fuel returns 0
\* and dv_vac(planet) returns 0, neither fails
C6NoTankZero ==
  (rocket.tanks = <<>> /\ ret.op \in {"mass_fuel", "dv_vac"}) =>
    ret.exc = "" /\ ret.val = Zero

\* C7 as stated: on a planet with an atmosphere, d_force is exactly 0 at every
\* altitude >= atmosphere.height
HeightNow == Atmosphere_height(planet.atmosphere[1], <<>>)

C8Rejected ==
  (ret.op \in {"Atmosphere", "Planet"}
     /\ (FLe(ret.args[1], Zero) \/ FLe(ret.args[2], Zero))) =>
    ret.exc = "InvalidParameter"

\* C9: a tick(dt) that returns has moved the altitude by the pre-tick
\* velocity * dt, the velocity by a * dt with a computed from the pre-tick
\* altitude, velocity, thrust, mass and drag, the time by dt, and has ticked
\* each booster, from its pre-tick state, with the pressure at the new altitude
C9Gravity == g_force(planet, altitude, Stage_mass(rocket, parts), cache).val

C9DragForce ==
  d_force(planet, altitude, velocity, Stage_mass(rocket, parts),
          Stage_drag(rocket, parts, cache).val, cache).val

C9Accel ==
  FDiv(FSub(FSub(Stage_thrust(rocket, parts), C9Gravity),
            FMul(drag_factor(velocity), C9DragForce)),
       Stage_mass(rocket, parts))

C9Tick(dt) ==
  /\ altitude' = FAdd(altitude, FMul(velocity, dt))
  /\ velocity' = FAdd(velocity, FMul(C9Accel, dt))
  /\ time' = FAdd(time, dt)
  /\ \A i \in 1..Len(rocket.engines) :
       parts'[rocket.engines[i]] =
         tick(parts[rocket.engines[i]], dt,
              Atmosphere_pressure(planet.atmosphere[1], altitude', cache).val)

C9UpdateOrder ==
  [][(ret'.op = "tick" /\ ret'.exc = "") => C9Tick(ret'.args[1])]_vars

C9Witness ==
  /\ calls >= 2
  /\ ret.op = "tick" /\ ret.exc = ""
  /\ altitude # Zero /\ velocity # Zero
  /\ FLt(parts["BACC"]._mass, Catalog("BACC")._mass)

\* C10: with a plain Engine in the stage, running() returns and tick(dt)
\* completes, without raising
C10PlainEngineOk ==
  (HasPlainEngine /\ ret.op \in {"running", "tick"}) => ret.exc = ""
====
